---- MODULE Spec2Model ----
(***************************************************************************)
(* apollo-link-gate: the @serialize key extraction (extractKey and its     *)
(* helpers) and the DedupeLink gate/queue controller with its two storage  *)
(* slots (sessionStorage 'ald-on', localStorage 'ald-ops').                *)
(*                                                                         *)
(* Encoding of JavaScript data                                             *)
(*   - an AST node is a record carrying its `kind` and the fields the code *)
(*     reads; an absent selectionSet is the value Null;                    *)
(*   - a runtime value is a tagged record: [t |-> "string", s |-> ...],    *)
(*     [t |-> "number", int |-> n, frac |-> digits], [t |-> "boolean",     *)
(*     b |-> ...], [t |-> "null"];                                         *)
(*   - the text of a numeric literal is a record of its sign and digit     *)
(*     sequences, so that parseInt/parseFloat compute something;           *)
(*   - a function that may throw returns [ok |-> BOOLEAN, ...].            *)
(***************************************************************************)
EXTENDS Integers, Sequences, FiniteSets, TLC

Null == [kind |-> "null"]

DIRECTIVE_NAME == "serialize"

STORAGE_KEY == "ald-ops"

OPEN_STORAGE_KEY == "ald-on"

(***************************************************************************)
(* Generic sequence helpers (Array.prototype.map/filter/reduce(concat)).   *)
(***************************************************************************)
RECURSIVE Flatten(_)
Flatten(ss) == IF ss = <<>> THEN <<>> ELSE Head(ss) \o Flatten(Tail(ss))

Range(s) == {s[i] : i \in DOMAIN s}

RemoveAt(s, i) == SubSeq(s, 1, i - 1) \o SubSeq(s, i + 1, Len(s))

(***************************************************************************)
(* AST walker                                                              *)
(***************************************************************************)
getAllArgumentsFromDirectives(directives) ==
  Flatten([i \in DOMAIN directives |-> directives[i].arguments])

RECURSIVE getAllArgumentsFromSelectionSet(_)
RECURSIVE getAllArgumentsFromSelection(_)
getAllArgumentsFromSelectionSet(selectionSet) ==
  IF selectionSet = Null THEN <<>>
  ELSE Flatten([i \in DOMAIN selectionSet.selections |->
                  getAllArgumentsFromSelection(selectionSet.selections[i])])

getAllArgumentsFromSelection(selection) ==
  LET args == getAllArgumentsFromDirectives(selection.directives)
  IN IF selection.kind = "Field"
       THEN args \o selection.arguments
                 \o getAllArgumentsFromSelectionSet(selection.selectionSet)
       ELSE args

getAllArgumentsFromOperation(op) ==
  getAllArgumentsFromDirectives(op.directives)
    \o getAllArgumentsFromSelectionSet(op.selectionSet)

getAllArgumentsFromFragment(frag) ==
  getAllArgumentsFromDirectives(frag.directives)
    \o getAllArgumentsFromSelectionSet(frag.selectionSet)

getAllArgumentsFromDocument(doc) ==
  Flatten([i \in DOMAIN doc.definitions |->
    LET def == doc.definitions[i]
    IN IF def.kind = "FragmentDefinition" THEN getAllArgumentsFromFragment(def)
       ELSE IF def.kind = "OperationDefinition" THEN getAllArgumentsFromOperation(def)
       ELSE <<>>])

RECURSIVE getVariablesFromValueNode(_)
getVariablesFromValueNode(node) ==
  CASE node.kind = "Variable" -> <<node>>
    [] node.kind = "ListValue" ->
         Flatten([i \in DOMAIN node.values |-> getVariablesFromValueNode(node.values[i])])
    [] node.kind = "ObjectValue" ->
         Flatten([i \in DOMAIN node.fields |->
                    getVariablesFromValueNode(node.fields[i].value)])
    [] OTHER -> <<>>

getVariablesFromArguments(args) ==
  Flatten([i \in DOMAIN args |-> getVariablesFromValueNode(args[i].value)])

\* The index of the document's operation definition (getOperationDefinition
\* of @apollo/client/utilities: the first OperationDefinition).
OperationIndex(doc) ==
  CHOOSE i \in DOMAIN doc.definitions :
    /\ doc.definitions[i].kind = "OperationDefinition"
    /\ \A j \in 1..(i - 1) : doc.definitions[j].kind # "OperationDefinition"

getOperationDefinition(doc) == doc.definitions[OperationIndex(doc)]

\* The document with its operation definition replaced by `op`.
WithOperation(doc, op) ==
  [doc EXCEPT !.definitions = [@ EXCEPT ![OperationIndex(doc)] = op]]

(***************************************************************************)
(* Document rewriter                                                       *)
(***************************************************************************)
\* Returns the document (the source edits its private deep clone in place).
removeVariableDefinitionsFromDocumentIfUnused(names, doc) ==
  IF Len(names) < 1 THEN doc
  ELSE
    LET args      == getAllArgumentsFromDocument(doc)
        usedVars  == getVariablesFromArguments(args)
        usedNames == {usedVars[i].name : i \in DOMAIN usedVars}
        filteredNames == {names[i] : i \in {j \in DOMAIN names : names[j] \notin usedNames}}
        op        == getOperationDefinition(doc)
    IN IF Cardinality(filteredNames) < 1 THEN doc
       ELSE WithOperation(doc,
              [op EXCEPT !.variableDefinitions =
                 SelectSeq(@, LAMBDA d : d \notin filteredNames)])

\* The index of the first directive called directiveName, 0 when there is none
\* (the source returns the node; `node !== directive` then compares identities,
\* which the index stands for).
extractDirective(query, directiveName) ==
  LET hits == {i \in DOMAIN query.directives : query.directives[i].name = directiveName}
  IN IF hits = {} THEN 0 ELSE CHOOSE i \in hits : \A j \in hits : i <= j

\* A mutant of removeDirectiveFromDocument: the document is returned as it
\* came.
removeDirectiveKeepingIt(doc, directive) == doc

removeDirectiveFromDocument(doc, directive) ==
  IF directive = 0 THEN doc
  ELSE
    LET originalOperationDefinition == getOperationDefinition(doc)
        node == originalOperationDefinition.directives[directive]
        docWithoutDirective ==
          WithOperation(doc,
            [originalOperationDefinition EXCEPT !.directives = RemoveAt(@, directive)])
        removedVars == getVariablesFromArguments(node.arguments)
        removedVariableNames == [i \in DOMAIN removedVars |-> removedVars[i].name]
    IN removeVariableDefinitionsFromDocumentIfUnused(removedVariableNames,
                                                     docWithoutDirective)

\* [ok, doc, hasArgs, args]; ok = FALSE is a thrown Error. documentCache
\* memoizes the successful keyed results by document identity; the function
\* is pure, so the cached and the computed result are the same value.
extractDirectiveArguments(doc) ==
  LET directive == extractDirective(getOperationDefinition(doc), DIRECTIVE_NAME)
  IN IF directive = 0
       THEN [ok |-> TRUE, doc |-> doc, hasArgs |-> FALSE, args |-> Null]
     ELSE
       LET arguments == getOperationDefinition(doc).directives[directive].arguments
           keyArgs   == {i \in DOMAIN arguments : arguments[i].name = "key"}
       IN IF keyArgs = {}
            THEN [ok |-> FALSE, doc |-> doc, hasArgs |-> FALSE, args |-> Null]
          ELSE
            LET argument == arguments[CHOOSE i \in keyArgs : \A j \in keyArgs : i <= j]
            IN IF argument.value.kind # "ListValue"
                 THEN [ok |-> FALSE, doc |-> doc, hasArgs |-> FALSE, args |-> Null]
               ELSE [ok |-> TRUE,
                     doc |-> removeDirectiveFromDocument(doc, directive),
                     hasArgs |-> TRUE,
                     args |-> argument.value]

(***************************************************************************)
(* Key materializer                                                        *)
(***************************************************************************)
RECURSIVE DigitsValue(_)
DigitsValue(ds) ==
  IF ds = <<>> THEN 0 ELSE 10 * DigitsValue(SubSeq(ds, 1, Len(ds) - 1)) + ds[Len(ds)]

RECURSIVE StripTrailingZeros(_)
StripTrailingZeros(ds) ==
  IF ds # <<>> /\ ds[Len(ds)] = 0 THEN StripTrailingZeros(SubSeq(ds, 1, Len(ds) - 1))
  ELSE ds

\* parseInt(text, 10) of the text of an IntValue: [neg, digits].
ParseInt(text) ==
  [t |-> "number",
   int |-> IF text.neg THEN 0 - DigitsValue(text.digits) ELSE DigitsValue(text.digits),
   frac |-> <<>>]

\* parseFloat(text) of the text of a FloatValue: [neg, digits, frac].
ParseFloat(text) ==
  [t |-> "number",
   int |-> IF text.neg THEN 0 - DigitsValue(text.digits) ELSE DigitsValue(text.digits),
   frac |-> StripTrailingZeros(text.frac)]

\* [ok, value]
getVariableOrDie(variables, name) ==
  IF variables = Null \/ name \notin DOMAIN variables
    THEN [ok |-> FALSE, value |-> Null]
    ELSE [ok |-> TRUE, value |-> variables[name]]

\* valueForArgument without parseInt/parseFloat: a numeric literal keeps its
\* text, as a string.
valueForArgumentNoCoercion(value, variables) ==
  CASE value.kind = "Variable" -> getVariableOrDie(variables, value.name)
    [] value.kind = "IntValue" ->
         [ok |-> TRUE, value |-> [t |-> "string", s |-> ToString(ParseInt(value.value).int)]]
    [] value.kind = "FloatValue" ->
         [ok |-> TRUE, value |-> [t |-> "string", s |-> ToString(ParseFloat(value.value).int)]]
    [] value.kind = "StringValue" \/ value.kind = "EnumValue" ->
         [ok |-> TRUE, value |-> [t |-> "string", s |-> value.value]]
    [] value.kind = "BooleanValue" ->
         [ok |-> TRUE, value |-> [t |-> "boolean", b |-> value.value]]
    [] OTHER -> [ok |-> FALSE, value |-> Null]

\* [ok, value]
valueForArgument(value, variables) ==
  CASE value.kind = "Variable" -> getVariableOrDie(variables, value.name)
    [] value.kind = "IntValue" -> [ok |-> TRUE, value |-> ParseInt(value.value)]
    [] value.kind = "FloatValue" -> [ok |-> TRUE, value |-> ParseFloat(value.value)]
    [] value.kind = "StringValue" \/ value.kind = "EnumValue" ->
         [ok |-> TRUE, value |-> [t |-> "string", s |-> value.value]]
    [] value.kind = "BooleanValue" ->
         [ok |-> TRUE, value |-> [t |-> "boolean", b |-> value.value]]
    [] OTHER -> [ok |-> FALSE, value |-> Null]

RECURSIVE DigitsText(_)
DigitsText(ds) == IF ds = <<>> THEN "" ELSE ToString(Head(ds)) \o DigitsText(Tail(ds))

\* JSON.stringify of one runtime value (strings here need no escaping).
JSONStringifyValue(v) ==
  CASE v.t = "string"  -> "\"" \o v.s \o "\""
    [] v.t = "number"  ->
         ToString(v.int) \o (IF v.frac = <<>> THEN "" ELSE "." \o DigitsText(v.frac))
    [] v.t = "boolean" -> IF v.b THEN "true" ELSE "false"
    [] OTHER -> "null"

RECURSIVE JoinComma(_)
JoinComma(ss) ==
  IF ss = <<>> THEN ""
  ELSE IF Len(ss) = 1 THEN Head(ss)
  ELSE Head(ss) \o "," \o JoinComma(Tail(ss))

\* JSON.stringify of an array of runtime values.
JSONStringify(vals) ==
  "[" \o JoinComma([i \in DOMAIN vals |-> JSONStringifyValue(vals[i])]) \o "]"

\* [ok, key]
materializeKey(argumentList, variables) ==
  LET vals == [i \in DOMAIN argumentList.values |->
                 valueForArgument(argumentList.values[i], variables)]
  IN IF \E i \in DOMAIN vals : ~vals[i].ok
       THEN [ok |-> FALSE, key |-> ""]
       ELSE [ok |-> TRUE, key |-> JSONStringify([i \in DOMAIN vals |-> vals[i].value])]

\* extractKey reading the annotation before it looks at the context: an
\* override key no longer skips the parsing.
extractKeyParsingFirst(operation) ==
  LET r == extractDirectiveArguments(operation.query)
  IN IF ~r.ok THEN [ok |-> FALSE, operation |-> operation, key |-> ""]
     ELSE IF ~r.hasArgs
       THEN [ok |-> TRUE, operation |-> operation,
             key |-> operation.context.serializationKey]
     ELSE
       LET k == materializeKey(r.args, operation.variables)
       IN IF ~k.ok THEN [ok |-> FALSE, operation |-> operation, key |-> ""]
          ELSE [ok |-> TRUE,
                operation |-> [operation EXCEPT !.query = r.doc],
                key |-> IF operation.context.serializationKey # ""
                          THEN operation.context.serializationKey ELSE k.key]

\* extractKey swallowing what its helpers throw: the operation then counts
\* as one without a key.
extractKeySwallowingErrors(operation) ==
  IF operation.context.serializationKey # ""
    THEN [ok |-> TRUE, operation |-> operation,
          key |-> operation.context.serializationKey]
  ELSE
    LET r == extractDirectiveArguments(operation.query)
    IN IF ~r.ok \/ ~r.hasArgs THEN [ok |-> TRUE, operation |-> operation, key |-> ""]
       ELSE
         LET k == materializeKey(r.args, operation.variables)
         IN IF ~k.ok THEN [ok |-> TRUE, operation |-> operation, key |-> ""]
            ELSE [ok |-> TRUE,
                  operation |-> [operation EXCEPT !.query = r.doc],
                  key |-> k.key]

\* An operation is [query, variables, context]; the context carries
\* serializationKey ("" when not given), skipQueue and optimisticResponse.
\* [ok, operation, key], key = "" standing for `undefined`.
extractKey(operation) ==
  IF operation.context.serializationKey # ""
    THEN [ok |-> TRUE, operation |-> operation,
          key |-> operation.context.serializationKey]
  ELSE
    LET r == extractDirectiveArguments(operation.query)
    IN IF ~r.ok THEN [ok |-> FALSE, operation |-> operation, key |-> ""]
       ELSE IF ~r.hasArgs THEN [ok |-> TRUE, operation |-> operation, key |-> ""]
       ELSE
         LET k == materializeKey(r.args, operation.variables)
         IN IF ~k.ok THEN [ok |-> FALSE, operation |-> operation, key |-> ""]
            ELSE [ok |-> TRUE,
                  operation |-> [operation EXCEPT !.query = r.doc],
                  key |-> k.key]

(***************************************************************************)
(* Operations issued to the link                                           *)
(***************************************************************************)
Var(n) == [kind |-> "Variable", name |-> n]

Str(x) == [t |-> "string", s |-> x]

Field(n, args, selectionSet) ==
  [kind |-> "Field", name |-> n, directives |-> <<>>, arguments |-> args,
   selectionSet |-> selectionSet]

OperationDefinition(directives, variableDefinitions, selections) ==
  [kind |-> "OperationDefinition", directives |-> directives,
   variableDefinitions |-> variableDefinitions,
   selectionSet |-> [selections |-> selections]]

SerializeOn(keyValue) ==
  [name |-> DIRECTIVE_NAME, arguments |-> <<[name |-> "key", value |-> keyValue]>>]

IntLit(n) == [kind |-> "IntValue", value |-> [neg |-> FALSE, digits |-> <<n>>]]

FloatLit(n, frac) ==
  [kind |-> "FloatValue", value |-> [neg |-> FALSE, digits |-> <<n>>, frac |-> frac]]

StringLit(x) == [kind |-> "StringValue", value |-> x]

BooleanLit(b) == [kind |-> "BooleanValue", value |-> b]

EnumLit(x) == [kind |-> "EnumValue", value |-> x]

ListLit(values) == [kind |-> "ListValue", values |-> values]

ObjectLit == [kind |-> "ObjectValue", fields |-> <<>>]

NullLit == [kind |-> "NullValue"]

Num(n) == [t |-> "number", int |-> n, frac |-> <<>>]

\* query ($id) { item(id: $id) }
DocPlain ==
  [definitions |-> <<OperationDefinition(<<>>, <<"id">>,
     <<Field("item", <<[name |-> "id", value |-> Var("id")]>>, Null)>>)>>]

\* mutation ($id) @serialize(key: [$id]) { save(id: $id) }
DocSave ==
  [definitions |-> <<OperationDefinition(
     <<SerializeOn([kind |-> "ListValue", values |-> <<Var("id")>>])>>,
     <<"id">>,
     <<Field("save", <<[name |-> "id", value |-> Var("id")]>>, Null)>>)>>]

\* mutation ($token) @serialize(key: [$token]) { ping }
DocPing ==
  [definitions |-> <<OperationDefinition(
     <<SerializeOn([kind |-> "ListValue", values |-> <<Var("token")>>])>>,
     <<"token">>,
     <<Field("ping", <<>>, Null)>>)>>]

\* mutation ($id) @serialize(id: [$id]) { ping }: no `key` argument
DocNoKeyArgument ==
  [definitions |-> <<OperationDefinition(
     <<[name |-> DIRECTIVE_NAME,
        arguments |-> <<[name |-> "id", value |-> ListLit(<<Var("id")>>)]>>]>>,
     <<"id">>,
     <<Field("ping", <<>>, Null)>>)>>]

\* mutation ($id) @serialize(key: $id) { ping }: the key is not a list
DocKeyNotList ==
  [definitions |-> <<OperationDefinition(
     <<SerializeOn(Var("id"))>>, <<"id">>, <<Field("ping", <<>>, Null)>>)>>]

\* mutation @serialize(key: [{}]) { ping }: an object literal in the key
DocObjectKey ==
  [definitions |-> <<OperationDefinition(
     <<SerializeOn(ListLit(<<ObjectLit>>))>>, <<>>, <<Field("ping", <<>>, Null)>>)>>]

Context(serializationKey, skipQueue) ==
  [serializationKey |-> serializationKey, skipQueue |-> skipQueue,
   optimisticResponse |-> Null]

\* Operations for which extractKey throws: the key variable is unbound, the
\* annotation has no `key` argument, the key holds an object literal.
RaisingOperations ==
  { [query |-> DocPing, variables |-> Null, context |-> Context("", FALSE)],
    [query |-> DocNoKeyArgument, variables |-> [id |-> Str("42")],
     context |-> Context("", FALSE)],
    [query |-> DocObjectKey, variables |-> Null, context |-> Context("", FALSE)] }

\* The operations a caller may issue (every request is a new Operation
\* object, told apart by its id): one keyed by its annotation, one under a
\* second key, one without a key, one that opts out of queuing, and those
\* whose key cannot be extracted.
Operations ==
  { [query |-> DocSave, variables |-> [id |-> Str("42")], context |-> Context("", FALSE)],
    [query |-> DocPing, variables |-> [token |-> Str("abc")], context |-> Context("", FALSE)],
    [query |-> DocPlain, variables |-> [id |-> Str("42")], context |-> Context("", FALSE)],
    [query |-> DocSave, variables |-> [id |-> Str("42")], context |-> Context("", TRUE)] }
    \cup RaisingOperations

\* One operation keyed by its annotation and one that carries an override
\* key next to its annotation.
OrderOperations ==
  { [query |-> DocSave, variables |-> [id |-> Str("42")], context |-> Context("", FALSE)],
    [query |-> DocSave, variables |-> [id |-> Str("42")], context |-> Context("k1", FALSE)] }

\* The operations the callers named by `catalog` issue.
Catalog(catalog) ==
  CASE catalog = "all" -> Operations
    [] catalog = "keyed" -> OrderOperations
    [] OTHER -> {}

(***************************************************************************)
(* Bounds                                                                  *)
(***************************************************************************)
\* Requests issued over the whole run.
MaxOps == 2

\* Rehydration batches whose Promise.all has not settled yet.
MaxInflight == 1

(***************************************************************************)
(* State                                                                   *)
(***************************************************************************)
VARIABLES
  hasStorage,   \* typeof localStorage !== 'undefined'
  faulty,       \* whether the store may throw in this behaviour
  constructed,  \* a controller exists (its constructor returned)
  isOpen,       \* DedupeLink.isOpen
  opQueue,      \* DedupeLink.opQueue: <<[key, id]>> in own-key order
  sessionFlag,  \* sessionStorage['ald-on']: "null", "0" or "1"
  snapshot,     \* localStorage['ald-ops']
  ops,          \* every request issued: its operation, key and handle
  batches,      \* rehydration batches in flight
  forwarded,    \* ids handed to the downstream continuation, in order
  outcome,      \* how the last step ended: "none", an Error raised to the
                \* caller ("key", "storage"), or one only console.log'ed
                \* by the batch's .catch ("reported")
  caller,       \* what the callers of the link do: the catalog of the
                \* operations they issue and how many requests they make
  input,        \* the argument of a key-extraction function under study
  result        \* what that function returned for it

vars == <<hasStorage, faulty, constructed, isOpen, opQueue, sessionFlag, snapshot,
          ops, batches, forwarded, outcome, caller, input, result>>

\* What no method of the link changes.
env == <<caller, input, result>>

\* localStorage.getItem returning null.
Absent == [present |-> FALSE, readable |-> TRUE, entries |-> <<>>]

\* A stored string JSON.parse rejects.
Unreadable == [present |-> TRUE, readable |-> FALSE, entries |-> <<>>]

Ids(q) == [i \in DOMAIN q |-> q[i].id]

Keys(q) == {q[i].key : i \in DOMAIN q}

IndexOf(q, key) == CHOOSE i \in DOMAIN q : q[i].key = key

\* A mutant of QueuePut: the entry is added without replacing the one stored
\* under the same key.
QueuePutKeepingOld(q, key, id) == Append(q, [key |-> key, id |-> id])

\* A mutant of QueuePut: a key assigned again moves to the end.
QueuePutMovingLast(q, key, id) ==
  Append(SelectSeq(q, LAMBDA e : e.key # key), [key |-> key, id |-> id])

\* this.opQueue[key] = entry: an existing own property keeps its position.
QueuePut(q, key, id) ==
  IF key \in Keys(q) THEN [q EXCEPT ![IndexOf(q, key)] = [key |-> key, id |-> id]]
  ELSE Append(q, [key |-> key, id |-> id])

\* A mutant of QueueDelete: nothing is deleted.
QueueDeleteNothing(q, key) == q

\* delete this.opQueue[key]
QueueDelete(q, key) ==
  IF key \in Keys(q) THEN RemoveAt(q, IndexOf(q, key)) ELSE q

\* JSON.stringify(this.opQueue), read back by JSON.parse: the entries by key
\* (operation and optimisticResponse survive; forward and observer do not).
Stringify(q) == [present |-> TRUE, readable |-> TRUE, entries |-> q]

\* A mutant of InitialIsOpen: the stored flag is not consulted.
InitialIsOpenAlways(storage, flag) == TRUE

\* sessionStorage.getItem(OPEN_STORAGE_KEY) !== '0'
InitialIsOpen(storage, flag) == IF ~storage THEN TRUE ELSE flag # "0"

\* The storage calls of one step that may throw when the store is faulty.
Faults(points) == IF faulty /\ hasStorage THEN {"none"} \cup points ELSE {"none"}

(***************************************************************************)
(* rehydrateQueue                                                          *)
(***************************************************************************)
\* What the synchronous part of rehydrateQueue does with the stored string:
\* "skip" (no storage, or nothing stored), "throw" (getItem or JSON.parse
\* throws) or "batch" (every stored entry is handed to client.mutate).
rehydrateQueue(storage, snap, f) ==
  IF ~storage THEN "skip"
  ELSE IF f = "localGet" THEN "throw"
  ELSE IF ~snap.present THEN "skip"
  ELSE IF ~snap.readable THEN "throw"
  ELSE "batch"

\* The entries one batch re-issues: Object.keys(opQueue).map(... mutate ...).
BatchOf(snap) == Ids(snap.entries)

\* A mutant of SettledSnapshot: the slot is removed whatever the outcome.
SettledSnapshotAlwaysRemoved(snap, failed, f) == Absent

\* The .then/.catch of the batch's Promise.all: the stored string after it
\* settled with the re-issues in `failed` rejected; removeItem throwing
\* inside .then is caught by the same .catch.
SettledSnapshot(snap, failed, f) ==
  IF failed = {} /\ f = "none" THEN Absent ELSE snap

(***************************************************************************)
(* Actions                                                                 *)
(***************************************************************************)
Entry(operation, key, sub, fate) ==
  [operation |-> operation, key |-> key, sub |-> sub, fate |-> fate]

\* `fate` of the entry stored under `key`, if any, becomes `fate`.
Mark(o, q, key, fate) ==
  IF key \in Keys(q) THEN [o EXCEPT ![q[IndexOf(q, key)].id].fate = fate] ELSE o

\* A mutant of PassesThrough: the skipQueue test is missing.
PassesThroughIgnoringSkipQueue(r, open) == r.key = "" \/ open

\* The three early returns of request(): `!key`, `this.isOpen` and
\* `context.skipQueue` each forward the operation at once.
PassesThrough(r, open) ==
  r.key = "" \/ open \/ r.operation.context.skipQueue

\* request(origOperation, forward)
Request(origOperation) ==
  /\ constructed
  /\ Len(ops) < caller.requests
  /\ LET r == extractKey(origOperation)
         pass == PassesThrough(r, isOpen)
     IN IF ~r.ok
          THEN /\ outcome' = "key"
               /\ UNCHANGED <<ops, forwarded>>
          ELSE /\ outcome' = "none"
               /\ ops' = Append(ops, Entry(r.operation, r.key,
                                           IF pass THEN "none" ELSE "returned",
                                           IF pass THEN "direct" ELSE "none"))
               /\ forwarded' = IF pass THEN Append(forwarded, Len(ops) + 1)
                               ELSE forwarded
  /\ UNCHANGED env
  /\ UNCHANGED <<hasStorage, faulty, constructed, isOpen, opQueue, sessionFlag,
                 snapshot, batches>>

\* Subscribing the Observable request() returned: enqueue(key, entry). An
\* error thrown by the subscriber function is delivered to the observer.
Subscribe(id) ==
  /\ constructed
  /\ id \in DOMAIN ops
  /\ ops[id].sub = "returned"
  /\ \E f \in Faults({"localSet"}) :
       /\ opQueue' = QueuePut(opQueue, ops[id].key, id)
       /\ ops' = [Mark(ops, opQueue, ops[id].key, "superseded") EXCEPT
                    ![id].sub = IF f = "none" THEN "subscribed" ELSE "errored",
                    ![id].fate = "pending"]
       /\ snapshot' = IF hasStorage /\ f = "none" THEN Stringify(opQueue') ELSE snapshot
  /\ outcome' = "none"
  /\ UNCHANGED env
  /\ UNCHANGED <<hasStorage, faulty, constructed, isOpen, sessionFlag, batches,
                 forwarded>>

\* The cleanup of a subscription (unsubscribe by the caller, or the end of
\* the forwarded result stream): cancelOperation(key). It runs once.
Cancel(id) ==
  /\ constructed
  /\ id \in DOMAIN ops
  /\ ops[id].sub = "subscribed"
  /\ \E f \in Faults({"localSet"}) :
       /\ opQueue' = QueueDelete(opQueue, ops[id].key)
       /\ ops' = [Mark(ops, opQueue, ops[id].key,
                       IF id \in Range(Ids(opQueue)) THEN "cancelled" ELSE "evicted")
                    EXCEPT ![id].sub = "closed"]
       /\ snapshot' = IF hasStorage /\ f = "none" THEN Stringify(opQueue') ELSE snapshot
  /\ outcome' = "none"
  /\ UNCHANGED env
  /\ UNCHANGED <<hasStorage, faulty, constructed, isOpen, sessionFlag, batches,
                 forwarded>>

\* The entries open() forwards, in Object.keys order: string keys in the
\* order of their creation.
Flushed(q) == Ids(q)

\* A mutant of QueueAfterFlush: open() leaves the queue as it was.
QueueKeptAfterFlush(q) == q

\* this.opQueue = {} at the end of open()
QueueAfterFlush(q) == <<>>

\* open()
Open ==
  /\ constructed
  /\ \E f \in Faults({"sessionSet", "localGet"}) :
       LET threwSet == hasStorage /\ f = "sessionSet"
           re == IF threwSet THEN "throw" ELSE rehydrateQueue(hasStorage, snapshot, f)
       IN /\ re = "batch" => Len(batches) < MaxInflight
          /\ isOpen' = TRUE
          /\ sessionFlag' = IF hasStorage /\ ~threwSet THEN "1" ELSE sessionFlag
          /\ batches' = IF re = "batch" THEN Append(batches, BatchOf(snapshot))
                        ELSE batches
          /\ IF re = "throw"
               THEN /\ outcome' = "storage"
                    /\ UNCHANGED <<opQueue, ops, forwarded>>
               ELSE /\ outcome' = "none"
                    /\ forwarded' = forwarded \o Flushed(opQueue)
                    /\ ops' = [i \in DOMAIN ops |->
                                 IF i \in Range(Flushed(opQueue))
                                   THEN [ops[i] EXCEPT !.fate = "flushed"]
                                   ELSE ops[i]]
                    /\ opQueue' = QueueAfterFlush(opQueue)
  /\ UNCHANGED env
  /\ UNCHANGED <<hasStorage, faulty, constructed, snapshot>>

\* close()
Close ==
  /\ constructed
  /\ \E f \in Faults({"sessionSet"}) :
       /\ isOpen' = FALSE
       /\ sessionFlag' = IF hasStorage /\ f = "none" THEN "0" ELSE sessionFlag
       /\ outcome' = IF f = "none" THEN "none" ELSE "storage"
  /\ UNCHANGED env
  /\ UNCHANGED <<hasStorage, faulty, constructed, opQueue, snapshot, ops, batches,
                 forwarded>>

\* The Promise.all of batch i settles; `failed` are the rejected re-issues.
Settle(i, failed) ==
  /\ constructed
  /\ i \in DOMAIN batches
  /\ failed \subseteq Range(batches[i])
  /\ \E f \in Faults({"localRemove"}) :
       /\ snapshot' = SettledSnapshot(snapshot, failed, f)
       /\ outcome' = IF failed # {} \/ f # "none" THEN "reported" ELSE "none"
  /\ batches' = RemoveAt(batches, i)
  /\ UNCHANGED env
  /\ UNCHANGED <<hasStorage, faulty, constructed, isOpen, opQueue, sessionFlag, ops,
                 forwarded>>

\* A new controller is constructed over the same storage (a reload in the
\* same session keeps sessionStorage, a new session starts with it empty):
\* the field initialisers and the constructor's rehydrateQueue().
Restart(sameSession) ==
  /\ sessionFlag' = IF sameSession THEN sessionFlag ELSE "null"
  /\ \E f \in Faults({"sessionGet", "localGet"}) :
       LET re == IF f = "sessionGet" THEN "throw"
                 ELSE rehydrateQueue(hasStorage, snapshot, f)
       IN /\ isOpen' = InitialIsOpen(hasStorage, sessionFlag')
          /\ constructed' = (re # "throw")
          /\ outcome' = IF re = "throw" THEN "storage" ELSE "none"
          /\ batches' = IF re = "batch" THEN <<BatchOf(snapshot)>> ELSE <<>>
  /\ opQueue' = <<>>
  /\ ops' = [i \in DOMAIN ops |->
               [ops[i] EXCEPT !.sub = "dead",
                              !.fate = IF @ = "pending" THEN "lost" ELSE @]]
  /\ UNCHANGED env
  /\ UNCHANGED <<hasStorage, faulty, snapshot, forwarded>>

\* No function is under study while the link runs.
Idle == [fn |-> "none"]

InitCommon ==
  /\ hasStorage \in BOOLEAN
  /\ input = Idle
  /\ result = Idle
  /\ constructed = TRUE
  /\ isOpen = InitialIsOpen(hasStorage, "null")
  /\ opQueue = <<>>
  /\ sessionFlag = "null"
  /\ ops = <<>>
  /\ batches = <<>>
  /\ forwarded = <<>>
  /\ outcome = "none"

\* A first controller in a fresh session over an empty, reliable store.
Init ==
  /\ InitCommon
  /\ faulty = FALSE
  /\ snapshot = Absent
  /\ caller = [operations |-> "all", requests |-> MaxOps]

\* The same over a store whose calls may throw and whose snapshot slot may
\* hold a string this program did not write.
InitFaulty ==
  /\ InitCommon
  /\ faulty = TRUE
  /\ snapshot \in {Absent, Unreadable}
  /\ caller = [operations |-> "all", requests |-> MaxOps]

Next ==
  \/ \E o \in Catalog(caller.operations) : Request(o)
  \/ \E id \in 1..caller.requests : Subscribe(id)
  \/ \E id \in 1..caller.requests : Cancel(id)
  \/ Open
  \/ Close
  \/ \E i \in 1..MaxInflight : \E failed \in SUBSET (1..caller.requests) : Settle(i, failed)
  \/ \E sameSession \in BOOLEAN : Restart(sameSession)

Spec == Init /\ [][Next]_vars

SpecFaulty == InitFaulty /\ [][Next]_vars

(***************************************************************************)
(* Properties                                                              *)
(***************************************************************************)
Count(id, s) == Cardinality({i \in DOMAIN s : s[i] = id})

Queued == Range(Ids(opQueue))

\* The step is the cleanup of handle id (unsubscribe, or the end of its
\* result stream).
CancelStep(id) == ops[id].sub = "subscribed" /\ ops'[id].sub = "closed"

\* C1: of two entries enqueued under one key while the gate is closed, the
\* first (superseded) one is gone from the queue map, which holds at most
\* one entry per key, and is never forwarded downstream in any later state;
\* only the entry that replaced it can be flushed by open(), and an entry
\* open() flushed has been forwarded.
C1_SupersededNeverForwarded ==
  /\ \A i, j \in DOMAIN opQueue : i # j => opQueue[i].key # opQueue[j].key
  /\ \A id \in DOMAIN ops :
       /\ ops[id].fate = "superseded" => id \notin Range(forwarded) /\ id \notin Queued
       /\ ops[id].fate = "flushed" => id \in Range(forwarded)

\* C1 witness: an entry was superseded and the entry that replaced it under
\* the same key was forwarded by open().
C1_Witness ==
  \E a, b \in DOMAIN ops :
    /\ a < b
    /\ ops[a].key = ops[b].key
    /\ ops[a].fate = "superseded"
    /\ ops[b].fate = "flushed"
    /\ b \in Range(forwarded)

\* C2: cancelling the handle of an entry that was superseded is a no-op: the
\* queue map and the persisted snapshot stay as they are (so the superseding
\* entry is still there for the next open()).
C2_CancelOfSupersededIsNoOp ==
  [][\A id \in DOMAIN ops :
       (ops[id].fate = "superseded" /\ CancelStep(id))
         => (opQueue' = opQueue /\ snapshot' = snapshot)]_vars

\* C3: the cleanup of a handle whose entry open() has already forwarded
\* leaves the queue map as it is, also when the gate was closed again and a
\* new entry was enqueued under the same key. (The in-memory half of the
\* claim; its other half, the snapshot being left as it is, fails too: the
\* cleanup always writes the slot.)
C3_CancelAfterForwardIsNoOp ==
  [][\A id \in DOMAIN ops :
       (ops[id].fate = "flushed" /\ CancelStep(id)) => opQueue' = opQueue]_vars

\* C4: an entry cancelled through its handle while it was pending is removed
\* from the queue map (nothing is left under its key by the cancel) and is
\* never forwarded by any later open().
C4_CancelledNeverForwarded ==
  [][/\ \A id \in DOMAIN ops :
          (ops[id].fate = "pending" /\ CancelStep(id))
            => (ops[id].key \notin Keys(opQueue') /\ ops'[id].fate = "cancelled")
     /\ \A id \in DOMAIN ops' :
          ops'[id].fate = "cancelled"
            => (id \notin Range(forwarded') /\ id \notin Range(Ids(opQueue')))]_vars

\* C4 witness: an entry was cancelled while pending and the gate has been
\* opened (open() wrote '1') with nothing forwarded.
C4_Witness ==
  /\ \E id \in DOMAIN ops : ops[id].fate = "cancelled" /\ ops[id].sub = "closed"
  /\ isOpen
  /\ sessionFlag = "1"
  /\ forwarded = <<>>

\* C5: open() forwards every entry of the queue map and empties the map, so
\* that no entry is forwarded twice over the run, however often open() is
\* called; an entry that was superseded is not forwarded. (Checked with a
\* store that does not throw; C10 covers the throwing store.)
C5_FlushedExactlyOnce ==
  [][/\ Open => /\ \A id \in Queued : Count(id, forwarded') = 1
                /\ opQueue' = <<>>
     /\ \A id \in DOMAIN ops' :
          /\ Count(id, forwarded') <= 1
          /\ ops'[id].fate = "superseded" => Count(id, forwarded') = 0]_vars

\* C5 witness: two entries under one key were each flushed by an open() of
\* their own (the map holds one entry per key), each forwarded once.
C5_Witness ==
  \E a, b \in DOMAIN ops :
    /\ a # b
    /\ ops[a].key = ops[b].key
    /\ ops[a].fate = "flushed" /\ ops[b].fate = "flushed"
    /\ Count(a, forwarded) = 1 /\ Count(b, forwarded) = 1

\* The step is a request() that returned normally, creating ops'[Len(ops')].
RequestStep == Len(ops') = Len(ops) + 1

\* C6: a request without key, or opting out (skipQueue), or made while the
\* gate is open is forwarded at once; no request() touches the queue map or
\* the snapshot; only a keyed request that does not opt out, made while the
\* gate is closed, gets a handle that can enqueue, and only such entries are
\* ever in the queue map.
C6_PassThrough ==
  [][/\ RequestStep =>
          LET id == Len(ops')
              e  == ops'[id]
              straight == e.key = "" \/ e.operation.context.skipQueue \/ isOpen
          IN /\ opQueue' = opQueue
             /\ snapshot' = snapshot
             /\ straight => (forwarded' = Append(forwarded, id) /\ e.sub = "none")
             /\ ~straight => (forwarded' = forwarded /\ e.sub = "returned")
     /\ \A id \in Range(Ids(opQueue')) :
          ops'[id].key # "" /\ ~ops'[id].operation.context.skipQueue]_vars

\* C6 witness: with the gate closed and an earlier entry pending, a keyed
\* operation that opts out of queuing was forwarded at once and the queue
\* map and the snapshot still hold only the pending entry.
C6_Witness ==
  /\ ~isOpen
  /\ sessionFlag = "0"
  /\ Len(opQueue) = 1
  /\ snapshot = Stringify(opQueue)
  /\ \E a \in DOMAIN ops :
       /\ ops[a].fate = "direct"
       /\ ops[a].operation.context.skipQueue
       /\ ops[a].key # ""
       /\ opQueue[1].id < a
       /\ forwarded = <<a>>

\* C7: with storage available, every entry pending in the queue map is in
\* the persisted snapshot under its key.
C7_PendingIsPersisted ==
  hasStorage =>
    \A i \in DOMAIN opQueue :
      snapshot.present /\ opQueue[i] \in Range(snapshot.entries)

\* The step starts a rehydration batch.
BatchStarts == Open \/ \E sameSession \in BOOLEAN : Restart(sameSession)

\* C8: when open() or the constructor finds a stored snapshot, every entry of
\* it is re-issued in one batch and nothing is raised; when the batch settles
\* with every re-issue fulfilled the snapshot slot is removed; when a
\* re-issue was rejected the slot is left as it is and the failure is only
\* reported.
C8_RehydrationOutcome ==
  [][/\ (BatchStarts /\ hasStorage /\ snapshot.present) =>
          /\ batches' # <<>>
          /\ batches'[Len(batches')] = Ids(snapshot.entries)
          /\ snapshot' = snapshot
          /\ outcome' = "none"
     /\ \A i \in DOMAIN batches : \A failed \in SUBSET Range(batches[i]) :
          Settle(i, failed) =>
            /\ failed = {} => ~snapshot'.present
            /\ failed # {} => (snapshot' = snapshot /\ outcome' = "reported")]_vars

\* C8 witness: a batch of two stored entries settled with a failure: it was
\* reported and the snapshot still holds both.
C8_Witness ==
  /\ outcome = "reported"
  /\ snapshot.present
  /\ Len(snapshot.entries) = 2
  /\ batches = <<>>

\* C9: with storage available, the gate state and the session slot agree
\* after every step ('0' when closed; '1', or nothing in a session where
\* neither open() nor close() ran, when open), and a controller constructed
\* in the same session starts in the state the previous one was left in; one
\* constructed with no flag stored starts open.
C9_GateFlagRoundTrip ==
  [][/\ hasStorage => (isOpen' <=> sessionFlag' # "0")
     /\ (hasStorage /\ Restart(TRUE)) => isOpen' = isOpen
     /\ (\E sameSession \in BOOLEAN : Restart(sameSession)) /\ sessionFlag' = "null"
          => isOpen']_vars

\* C9 witness: a controller constructed in a session whose flag says closed
\* starts closed, with nothing of its own queued.
C9_Witness ==
  /\ hasStorage
  /\ ~isOpen
  /\ sessionFlag = "0"
  /\ ops # <<>>
  /\ \A id \in DOMAIN ops : ops[id].sub = "dead"

\* C10: no failure of the store is raised to the caller of request, cancel,
\* open() or close(), and a controller is always constructed.
C10_StorageFailuresAreSoft == outcome # "storage" /\ constructed

(***************************************************************************)
(* The key materializer on its own: materializeKey applied to a key list   *)
(* and a variables object.                                                 *)
(***************************************************************************)
\* Elements of the key list of one @serialize annotation.
MaxKeyLen == 3

\* 1, 1.50, 2.0, "a", true, RED, $id, $token, [1], {}, null
KeyElements ==
  { IntLit(1), FloatLit(1, <<5, 0>>), FloatLit(2, <<0>>), StringLit("a"),
    BooleanLit(TRUE), EnumLit("RED"), Var("id"), Var("token"),
    ListLit(<<IntLit(1)>>), ObjectLit, NullLit }

KeyLists == UNION {[1..n -> KeyElements] : n \in 0..MaxKeyLen}

\* operation.variables: undefined, {id}, {id, token} with a number and a
\* string, {token: null}.
Bindings ==
  { Null,
    [id |-> Str("42")],
    [id |-> Num(7), token |-> Str("abc")],
    [token |-> [t |-> "null"]] }

\* The link is not in use while a function is studied on its own.
InitStudy ==
  /\ hasStorage = FALSE
  /\ faulty = FALSE
  /\ constructed = FALSE
  /\ isOpen = TRUE
  /\ opQueue = <<>>
  /\ sessionFlag = "null"
  /\ snapshot = Absent
  /\ ops = <<>>
  /\ batches = <<>>
  /\ forwarded = <<>>
  /\ outcome = "none"
  /\ caller = [operations |-> "none", requests |-> 0]
  /\ result = Idle

gate == <<hasStorage, faulty, constructed, isOpen, opQueue, sessionFlag, snapshot,
          ops, batches, forwarded, outcome, caller>>

InitMaterialize ==
  /\ InitStudy
  /\ input \in [fn : {"materializeKey"}, list : KeyLists, variables : Bindings]

Materialize ==
  /\ input.fn = "materializeKey"
  /\ result = Idle
  /\ result' = [fn |-> "materializeKey"]
                 @@ materializeKey(ListLit(input.list), input.variables)
  /\ UNCHANGED <<gate, input>>

NextMaterialize == Materialize

SpecMaterialize == InitMaterialize /\ [][NextMaterialize]_vars

\* The JSON text the serialization of one resolved key element must be, and
\* "" for an element that cannot be resolved.
ElementText(e, variables) ==
  CASE e = IntLit(1) -> "1"
    [] e = FloatLit(1, <<5, 0>>) -> "1.5"
    [] e = FloatLit(2, <<0>>) -> "2"
    [] e = StringLit("a") -> "\"a\""
    [] e = BooleanLit(TRUE) -> "true"
    [] e = EnumLit("RED") -> "\"RED\""
    [] e = Var("id") /\ variables = [id |-> Str("42")] -> "\"42\""
    [] e = Var("id") /\ variables = [id |-> Num(7), token |-> Str("abc")] -> "7"
    [] e = Var("token") /\ variables = [id |-> Num(7), token |-> Str("abc")] -> "\"abc\""
    [] e = Var("token") /\ variables = [token |-> [t |-> "null"]] -> "null"
    [] OTHER -> ""

RECURSIVE ListText(_, _)
ListText(list, variables) ==
  IF list = <<>> THEN ""
  ELSE ElementText(Head(list), variables)
         \o (IF Len(list) = 1 THEN "" ELSE "," \o ListText(Tail(list), variables))

OverrideKeys == {"", "k1", "7"}

ExtractOperations ==
  { [query |-> q, variables |-> v, context |-> Context(k, FALSE)] :
      q \in {DocPlain, DocSave, DocPing, DocNoKeyArgument, DocKeyNotList, DocObjectKey},
      v \in Bindings,
      k \in OverrideKeys }

InitExtract ==
  /\ InitStudy
  /\ input \in [fn : {"extractKey"}, operation : ExtractOperations]

Extract ==
  /\ input.fn = "extractKey"
  /\ result = Idle
  /\ result' = [fn |-> "extractKey"] @@ extractKey(input.operation)
  /\ UNCHANGED <<gate, input>>

NextExtract == Extract

SpecExtract == InitExtract /\ [][NextExtract]_vars

\* C12: an operation whose context carries an override key gets exactly
\* that key, whatever its document and variables are, and no annotation or
\* materialization error is raised for it.
C12_OverrideKeyVerbatim ==
  (result.fn = "extractKey" /\ input.operation.context.serializationKey # "")
    => /\ result.ok
       /\ result.key = input.operation.context.serializationKey

\* An override key on a document whose annotation has no `key` argument and
\* whose variables are undefined.
C12_Witness ==
  /\ result.fn = "extractKey"
  /\ input.operation.query = DocNoKeyArgument
  /\ input.operation.variables = Null
  /\ input.operation.context.serializationKey = "k1"
  /\ result.ok
  /\ result.key = "k1"

(***************************************************************************)
(* The in-memory queue under callers that issue one request more, from     *)
(* two keyed operations: one keyed by its annotation and one that carries  *)
(* an override key next to its annotation.                                 *)
(***************************************************************************)
\* One controller where localStorage is undefined: nothing is persisted,
\* no batch is re-issued, and the gate starts Open.
InitOrder ==
  /\ InitCommon
  /\ hasStorage = FALSE
  /\ faulty = FALSE
  /\ snapshot = Absent
  /\ caller = [operations |-> "keyed", requests |-> MaxOps + 1]

NextOrder ==
  \/ \E o \in Catalog(caller.operations) : Request(o)
  \/ \E id \in 1..caller.requests : Subscribe(id)
  \/ \E id \in 1..caller.requests : Cancel(id)
  \/ Open
  \/ Close

SpecOrder == InitOrder /\ [][NextOrder]_vars

KeySeq(q) == [i \in DOMAIN q |-> q[i].key]

SubscribeStep(id) == Subscribe(id) /\ ops'[id].sub = "subscribed"

\* C13 as stated: open() forwards the queued entries in the order of the
\* queue map's keys, and a superseding enqueue moves its key to the most
\* recent position (enqueue k1, k2, k1 again: k2 is forwarded before k1).
C13_SupersedeMovesLast ==
  [][/\ \A id \in 1..caller.requests :
          SubscribeStep(id) => opQueue'[Len(opQueue')].id = id
     /\ Open => forwarded' = forwarded \o Ids(opQueue)]_vars

\* C13, amended: open() forwards the queued entries in the order of the
\* queue map's keys, which is the order in which the keys were first
\* inserted: a superseding enqueue replaces the entry in place and keeps the
\* position of its key (enqueue k1, k2, k1 again: the second k1 operation is
\* forwarded before k2), and only a new key goes to the most recent position.
C13_FlushInFirstInsertionOrder ==
  [][/\ \A id \in 1..caller.requests :
          SubscribeStep(id) =>
            LET k == ops[id].key
            IN IF k \in Keys(opQueue)
                 THEN /\ KeySeq(opQueue') = KeySeq(opQueue)
                      /\ opQueue'[IndexOf(opQueue, k)].id = id
                 ELSE opQueue' = Append(opQueue, [key |-> k, id |-> id])
     /\ Open => forwarded' = forwarded \o Ids(opQueue)]_vars

\* Requests 1 and 3 share a key, 2 has another; 3 superseded 1 while 2 was
\* queued behind it, and the flush forwarded 3 before 2.
C13_Witness ==
  /\ Len(ops) = 3
  /\ ops[1].key = ops[3].key
  /\ ops[2].key # ops[1].key
  /\ ops[1].fate = "superseded"
  /\ ops[2].fate = "flushed"
  /\ ops[3].fate = "flushed"
  /\ forwarded = <<3, 2>>

\* C14: once open() has flushed and its rehydration batch has settled,
\* whether fulfilled or rejected, the queue map is empty as long as the gate
\* stays Open and no entry that open() forwarded is left in the snapshot
\* slot.
C14_FlushClearsSnapshot ==
  (hasStorage /\ batches = <<>>) =>
    \A id \in DOMAIN ops :
      ops[id].fate = "flushed" => id \notin Range(Ids(snapshot.entries))

\* C15: an entry leaves the queue map of its controller only by being
\* forwarded on open(), by the cancellation of its own handle, or by being
\* superseded by an enqueue under its key; close(), other requests and the
\* handles of other entries leave it pending.
C15_LeavesOnlyByFlushCancelSupersede ==
  [][\A id \in Range(Ids(opQueue)) :
       id \notin Range(Ids(opQueue')) =>
         \/ Open /\ id \in Range(forwarded')
         \/ Cancel(id)
         \/ \E j \in DOMAIN ops : Subscribe(j) /\ ops[j].key = ops[id].key
         \/ \E sameSession \in BOOLEAN : Restart(sameSession)]_vars

\* C16: when the key extraction of a request() raises (malformed annotation,
\* unbound key variable, unsupported key literal), the error reaches the
\* caller, nothing is forwarded, and the gate state, the queue map, the
\* snapshot and the entries queued before are as they were.
C16_ExtractionErrorChangesNothing ==
  [][/\ \A o \in RaisingOperations : Request(o) => outcome' = "key"
     /\ outcome' = "key" =>
          UNCHANGED <<isOpen, opQueue, sessionFlag, snapshot, ops, batches,
                      forwarded>>]_vars

\* A request has raised while the gate was Closed over a pending entry.
C16_Witness ==
  /\ outcome = "key"
  /\ ~isOpen
  /\ opQueue # <<>>
  /\ \E id \in DOMAIN ops : ops[id].fate = "pending"
  /\ hasStorage
  /\ snapshot = Stringify(opQueue)

(***************************************************************************)
(* The document rewriter on its own: extractDirectiveArguments applied to  *)
(* one document  mutation ($id, $token) @serialize(key: ...) { ... }.      *)
(***************************************************************************)
\* Selections of the operation's selection set.
MaxSelections == 2

InlineFragment(selections) ==
  [kind |-> "InlineFragment", directives |-> <<>>,
   selectionSet |-> [selections |-> selections]]

FragmentSpread(n) == [kind |-> "FragmentSpread", name |-> n, directives |-> <<>>]

FragmentDefinition(n, selections) ==
  [kind |-> "FragmentDefinition", name |-> n, directives |-> <<>>,
   selectionSet |-> [selections |-> selections]]

\* save(id: $id), ping, user { name(t: $token) }, ... { save(id: $id) },
\* ... { name(t: $token) }, ...F
Selections ==
  { Field("save", <<[name |-> "id", value |-> Var("id")]>>, Null),
    Field("ping", <<>>, Null),
    Field("user", <<>>,
          [selections |-> <<Field("name", <<[name |-> "t", value |-> Var("token")]>>, Null)>>]),
    InlineFragment(<<Field("save", <<[name |-> "id", value |-> Var("id")]>>, Null)>>),
    InlineFragment(<<Field("name", <<[name |-> "t", value |-> Var("token")]>>, Null)>>),
    FragmentSpread("F") }

\* The directives of the operation: none, @serialize keyed by $id, by
\* $token, by both, and two annotations.
DirectiveLists ==
  { <<>>,
    <<SerializeOn(ListLit(<<Var("id")>>))>>,
    <<SerializeOn(ListLit(<<Var("token")>>))>>,
    <<SerializeOn(ListLit(<<Var("id"), Var("token")>>))>>,
    <<SerializeOn(ListLit(<<Var("id")>>)), SerializeOn(ListLit(<<Var("token")>>))>> }

\* The definitions after the operation: none, or
\* fragment F on Mutation { save(id: $id) }.
FragmentLists ==
  { <<>>,
    <<FragmentDefinition("F",
        <<Field("save", <<[name |-> "id", value |-> Var("id")]>>, Null)>>)>> }

Documents ==
  { [definitions |-> <<OperationDefinition(d, <<"id", "token">>, sels)>> \o frags] :
      d \in DirectiveLists,
      sels \in UNION {[1..n -> Selections] : n \in 0..MaxSelections},
      frags \in FragmentLists }

InitRewrite ==
  /\ InitStudy
  /\ input \in [fn : {"extractDirectiveArguments"}, doc : Documents]

Rewrite ==
  /\ input.fn = "extractDirectiveArguments"
  /\ result = Idle
  /\ result' = [fn |-> "extractDirectiveArguments"] @@ extractDirectiveArguments(input.doc)
  /\ UNCHANGED <<gate, input>>

NextRewrite == Rewrite

SpecRewrite == InitRewrite /\ [][NextRewrite]_vars

\* The names of the variables referenced by a selection, at any depth and
\* in any kind of selection.
RECURSIVE ReferencedInSelection(_)
ReferencedInSelection(sel) ==
  LET own == IF sel.kind = "Field"
               THEN {a.value.name : a \in {b \in Range(sel.arguments) :
                                               b.value.kind = "Variable"}}
               ELSE {}
      inner == IF sel.kind = "FragmentSpread" \/ sel.selectionSet = Null THEN {}
               ELSE UNION {ReferencedInSelection(x) : x \in Range(sel.selectionSet.selections)}
  IN own \cup inner

\* The names referenced anywhere in the document outside the operation's
\* own directives.
ReferencedInBodies(doc) ==
  UNION {ReferencedInSelection(x) :
           x \in UNION {Range(def.selectionSet.selections) : def \in Range(doc.definitions)}}

\* The names referenced by the directive at index i of the operation.
ReferencedInDirective(doc, i) ==
  {v.name : v \in Range(getVariablesFromArguments(
                       getOperationDefinition(doc).directives[i].arguments))}

\* C17: the rewritten document lacks the first serialize annotation and
\* declares exactly the variables of the input except those referenced in
\* the removed annotation's arguments and nowhere else in the whole
\* document, at any depth and inside inline fragments too.
C17_DropsOnlyUnusedVariables ==
  (result.fn = "extractDirectiveArguments" /\ result.ok /\ result.hasArgs) =>
    LET op == getOperationDefinition(input.doc)
        elsewhere == ReferencedInBodies(input.doc)
                       \cup UNION {ReferencedInDirective(input.doc, i) :
                                     i \in 2..Len(op.directives)}
        dropped == ReferencedInDirective(input.doc, 1) \ elsewhere
        out == getOperationDefinition(result.doc)
    IN /\ out.directives = Tail(op.directives)
       /\ out.variableDefinitions =
            SelectSeq(op.variableDefinitions, LAMBDA v : v \notin dropped)

HasAnnotation(operation) ==
  \E d \in Range(getOperationDefinition(operation.query).directives) :
    d.name = DIRECTIVE_NAME

\* C18 as stated: whichever way its key was obtained, the operation of every
\* queue entry and every keyed operation forwarded carries no serialize
\* annotation.
C18_KeyedOperationHasNoAnnotation ==
  \A id \in DOMAIN ops : ops[id].key # "" => ~HasAnnotation(ops[id].operation)

\* C18, amended: the operation of every queue entry, and every keyed
\* operation forwarded, whose key was derived from its annotation is the
\* rewritten operation, which differs from the requested one in its document
\* alone, the document having lost that annotation; an operation keyed by an
\* override key of its context is captured and forwarded as it was
\* requested, with any annotation it has.
C18_AnnotationKeyedIsRewritten ==
  \A id \in DOMAIN ops :
    ops[id].key # "" =>
      LET operation == ops[id].operation
      IN IF operation.context.serializationKey # ""
           THEN /\ operation \in Catalog(caller.operations)
                /\ ops[id].key = operation.context.serializationKey
           ELSE /\ ~HasAnnotation(operation)
                /\ \E o \in Catalog(caller.operations) :
                     /\ HasAnnotation(o)
                     /\ o.variables = operation.variables
                     /\ o.context = operation.context
                     /\ getOperationDefinition(operation.query) =
                          [getOperationDefinition(o.query) EXCEPT !.directives = <<>>]

\* Both kinds were queued and forwarded by open(): one keyed by its
\* annotation and rewritten, one keyed by the override key and still
\* annotated.
C18_Witness ==
  \E a, b \in DOMAIN ops :
    /\ ops[a].fate = "flushed"
    /\ ops[b].fate = "flushed"
    /\ ops[a].operation.context.serializationKey = ""
    /\ ops[a].key = "[\"42\"]"
    /\ ~HasAnnotation(ops[a].operation)
    /\ ops[b].key = "k1"
    /\ HasAnnotation(ops[b].operation)
    /\ {a, b} \subseteq Range(forwarded)

\* C19: while the gate is Open the queue map is empty: open() empties it
\* and nothing is inserted while Open, also when the handle of a request()
\* made while Closed is subscribed only after open().
C19_OpenGateHasEmptyQueue ==
  (constructed /\ isOpen) => opQueue = <<>>

\* C20: with storage available, an entry enqueued by this controller and
\* forwarded by open() is not also re-issued through the client by the
\* rehydration batch that the same open() starts.
C20_FlushedNotReissued ==
  [][(Open /\ hasStorage /\ Len(batches') > Len(batches)) =>
       Range(batches'[Len(batches')]) \cap Range(Flushed(opQueue)) = {}]_vars
====
